---- MODULE Spec2Model ----
(***************************************************************************)
(* Model of the ML inference gateway, src/gateway/app.py.                  *)
(*                                                                         *)
(*   Spec        POST /predict handled by coroutines on one event loop,    *)
(*               interleaved with GET /metrics running on a worker thread  *)
(*   SpecRank    the top-5 selection of predict (lines 163-172) applied to *)
(*               every prediction vector of a bounded set                  *)
(*   SpecHealth  GET /health against a backend whose state changes         *)
(*                                                                         *)
(* Units.  A score is an integer number of 1/10000; a percentage           *)
(* (confidence_percent, success_rate) is an integer number of 1/100 of a   *)
(* percent, i.e. the value after round(x, 2).                              *)
(***************************************************************************)
EXTENDS Integers, Sequences, FiniteSets, TLC

\* ------------------------------------------------------------------ bounds
NumRequests == 3
MaxLen == 6
MaxScore == 2
MaxHealthCalls == 3

\* -------------------------------------------------------- program constants
TopK == 5
HTTP_OK == 200
HTTP_BAD_REQUEST == 400
HTTP_SERVER_ERROR == 500
HTTP_UNAVAILABLE == 503

VARIABLES
    metrics,        \* the module-level dict: requests_total, errors_total
    running,        \* the coroutine that holds the event loop, 0 when it is free
    pc,             \* per request: position in predict
    content_type,   \* per request: file.content_type
    tmp,            \* per request: the value loaded by the pending "+= 1"
    exc,            \* per request: the exception in flight inside the try block
    response,       \* per request: what the handler returned or raised
    stages,         \* per request: the stages that have run, in order (history)
    outcome,        \* per request: what each fallible stage did so far
    incs,           \* per request: what its stores added to each counter (history)
    answered,       \* responses sent so far: successes, errors (history)
    peak,           \* the most requests that were in flight at once (history)
    mpc,            \* get_metrics: position
    mlocal,         \* get_metrics: the values its reads have observed so far
    report,         \* get_metrics: the last returned body
    pred_array,     \* SpecRank: the prediction vector
    results,        \* SpecRank: the predictions list built from it
    tf_serving,     \* SpecHealth: what the backend does to a probe
    verdict,        \* SpecHealth: the last /health response
    previous,       \* SpecHealth: the /health response before that (history)
    calls           \* SpecHealth: number of /health calls made

vars == <<metrics, running, pc, content_type, tmp, exc, response, stages,
          outcome, incs, answered, peak, mpc, mlocal, report, pred_array, results,
          tf_serving, verdict, previous, calls>>

predictVars == <<metrics, running, pc, content_type, tmp, exc, response,
                 stages, outcome, incs, answered, peak>>
metricsVars == <<mpc, mlocal, report>>
rankVars    == <<pred_array, results>>
healthVars  == <<tf_serving, verdict, previous, calls>>

Requests == 1..NumRequests

\* ------------------------------------------------------------ arithmetic
Abs(x) == IF x < 0 THEN -x ELSE x

\* Python's max(a, b)
max(a, b) == IF a >= b THEN a ELSE b

\* round(n / d * 100, 2) style rounding: the integer nearest to n / d (d > 0),
\* a tie going to the even neighbour, as Python's round does.
round(n, d) ==
    LET q == n \div d
        r == n - q * d
    IN  IF 2 * r < d THEN q
        ELSE IF 2 * r > d THEN q + 1
        ELSE IF q % 2 = 0 THEN q ELSE q + 1

\* --------------------------------------------------------- content types
\* file.content_type is None or a string; a string is a sequence of characters.
None == [none |-> TRUE, text |-> <<>>]
Str(s) == [none |-> FALSE, text |-> s]

text_plain == Str(<<"t","e","x","t","/","p","l","a","i","n">>)
image_png  == Str(<<"i","m","a","g","e","/","p","n","g">>)
image_bare == Str(<<"i","m","a","g","e">>)

ContentTypes == {None, text_plain, image_png, image_bare}

\* str.startswith
startswith(s, prefix) ==
    /\ Len(s) >= Len(prefix)
    /\ SubSeq(s, 1, Len(prefix)) = prefix

\* mutant: the startswith test forgotten, only a missing type is refused
InvalidFileTypeMissingOnly(ct) ==
    \/ ct.none
    \/ ct.text = <<>>

\* line 104: not file.content_type or not file.content_type.startswith('image/')
InvalidFileType(ct) ==
    \/ ct.none
    \/ ct.text = <<>>
    \/ ~startswith(ct.text, <<"i","m","a","g","e","/">>)

\* ------------------------------------------------- top-5 selection (163-172)
\* A prediction vector is a sequence of scores; class id c is element c + 1.
Score(v, idx) == v[idx + 1]

\* np.argsort(pred_array): the indices in ascending score order.  The default
\* kind is quicksort, which is not stable: indices of equal scores come out in
\* an order the numpy build decides, so every ascending order is an outcome.
RECURSIVE AscendingOrders(_, _)
AscendingOrders(v, S) ==
    IF S = {} THEN {<<>>}
    ELSE UNION { { <<i>> \o rest : rest \in AscendingOrders(v, S \ {i}) } :
                 i \in { j \in S : \A k \in S : Score(v, j) <= Score(v, k) } }

argsort(v) == AscendingOrders(v, 0 .. Len(v) - 1)

\* s[-5:]
LastK(s) == SubSeq(s, max(1, Len(s) - TopK + 1), Len(s))

\* s[::-1]
Reversed(s) == [n \in 1 .. Len(s) |-> s[Len(s) - n + 1]]

\* line 164: np.argsort(pred_array)[-5:][::-1], for one outcome of argsort
top_5_indices(order) == Reversed(LastK(order))

\* lines 166-172: one entry per index, in the order of top_5_indices
BuildResults(v, indices) ==
    [n \in 1 .. Len(indices) |->
        [class_id           |-> indices[n],
         probability        |-> Score(v, indices[n]),
         confidence_percent |-> round(Score(v, indices[n]) * 100 * 100, 10000)]]

\* every predictions list lines 163-172 can produce for the vector v
PredictionLists(v) == { BuildResults(v, top_5_indices(o)) : o \in argsort(v) }

\* ------------------------------------------------------ POST /predict state
NoException == [type |-> "none", status_code |-> 0, detail |-> "None"]

\* raise HTTPException(status_code=..., detail=...)
HTTPException(status_code, detail) ==
    [type |-> "HTTPException", status_code |-> status_code, detail |-> detail]

\* an exception of a library: it has a message, str(e), and no status code
Raised(type) == [type |-> type, status_code |-> 0, detail |-> "str(e)"]

\* the classes deriving from Exception that the try block can meet
ExceptionSubclasses ==
    {"Exception", "HTTPException", "UnidentifiedImageError", "MemoryError",
     "Timeout", "ConnectionError", "JSONDecodeError", "KeyError", "IndexError"}

\* mutant: the second clause written "except requests.RequestException"
ExceptClauseRequestsOnly(type) ==
    IF type = "HTTPException" THEN "l187"
    ELSE IF type \in {"Timeout", "ConnectionError"} THEN "l190"
    ELSE "unhandled"

\* lines 187 and 190: the except clause that catches an exception type
ExceptClause(type) ==
    IF type = "HTTPException" THEN "l187"
    ELSE IF type \in ExceptionSubclasses THEN "l190"
    ELSE "unhandled"

\* mutant: line 188 missing, a re-raised HTTPException is not counted
ErrorIncrementGenericOnly(clause) == IF clause = "l187" THEN 0 ELSE 1

\* lines 188 and 191: what the clause adds to errors_total
ErrorIncrement(clause) == 1

\* line 100: what the handler adds to requests_total
RequestIncrement == 1

NoResponse == [status_code |-> 0, detail |-> "None", predictions |-> <<>>]
NoLocals   == [loaded |-> 0, pred_array |-> <<>>, results |-> <<>>]
NoOutcome  == [validate |-> "none", normalize |-> "none", backend |-> "none"]

\* what Image.open / convert / resize / np.array can do (lines 114-138)
NormalizeOutcomes == {"ok", "UnidentifiedImageError", "MemoryError"}

\* what requests.post and the decoding of its response can do (lines 144-163)
BackendOutcomes ==
    {"ok", "Timeout", "ConnectionError", "non_200", "JSONDecodeError",
     "KeyError", "IndexError"}

\* the vectors the backend answers with in Spec
SampleVectors == { <<1, 0, 5, 3, 2, 4>>, <<5, 5, 1, 2, 3, 4>> }

\* The statements of predict in program order: the position after `at'.
Successor(at) ==
    CASE at = "idle"         -> "l100_load"
      [] at = "l100_load"    -> "l100_store"
      [] at = "l100_store"   -> "validate"
      [] at = "validate"     -> "read"
      [] at = "read"         -> "normalize"
      [] at = "normalize"    -> "backend"
      [] at = "backend"      -> "rank"
      [] at = "rank"         -> "respond"
      [] at = "respond"      -> "returned"
      [] at = "except"       -> "except_store"
      [] at = "except_store" -> "returned"
      [] at = "returned"     -> "done"

\* mutant: the content-type check logs instead of raising
FlowFallsThrough(at, result) ==
    IF result = "raise" /\ at # "validate" THEN "except" ELSE Successor(at)

\* mutant: line 100 placed after the content-type check
FlowCountsAfterValidation(at, result) ==
    IF result = "raise" THEN "except"
    ELSE CASE at = "idle"       -> "validate"
           [] at = "validate"   -> "l100_load"
           [] at = "l100_store" -> "read"
           [] OTHER             -> Successor(at)

\* The control flow of predict: the position reached from `at' when the
\* statements there end with `result' ("ok", or "raise" for an exception,
\* which goes to the except clauses of lines 187-193).
Flow(at, result) ==
    IF result = "raise" THEN "except" ELSE Successor(at)

\* predict is "async def": its coroutines all run on the one event-loop thread,
\* which a coroutine keeps from its dispatch (or its resumption after an
\* await) until its next await or its end.
\* mutant: predict written as a plain "def", each call on its own thread
CanStepAnyThread(i) == TRUE

CanStep(i) == running \in {0, i}

Stage(i, name) == [stages EXCEPT ![i] = Append(@, name)]

NoIncs == [requests |-> 0, errors |-> 0]

InitPredict ==
    /\ metrics = [requests_total |-> 0, errors_total |-> 0]
    /\ running = 0
    /\ pc = [i \in Requests |-> "idle"]
    /\ content_type = [i \in Requests |-> None]
    /\ tmp = [i \in Requests |-> NoLocals]
    /\ exc = [i \in Requests |-> NoException]
    /\ response = [i \in Requests |-> NoResponse]
    /\ stages = [i \in Requests |-> <<>>]
    /\ outcome = [i \in Requests |-> NoOutcome]
    /\ incs = [i \in Requests |-> NoIncs]
    /\ answered = [ok |-> 0, error |-> 0]
    /\ peak = 0

\* the framework dispatches predict(file) for an upload
Receive(i) ==
    /\ pc[i] = "idle"
    /\ \A j \in Requests : j < i => pc[j] # "idle"
    /\ CanStep(i)
    /\ pc' = [pc EXCEPT ![i] = Flow("idle", "ok")]
    /\ peak' = max(peak, Cardinality({j \in Requests : pc'[j] \notin {"idle", "done"}}))
    /\ running' = i
    /\ UNCHANGED <<metrics, content_type, tmp, exc, response, stages, outcome, incs, answered>>
    /\ UNCHANGED <<metricsVars, rankVars, healthVars>>

\* line 100, the read of metrics["requests_total"] += 1
LoadRequestsTotal(i) ==
    /\ pc[i] = "l100_load"
    /\ CanStep(i)
    /\ tmp' = [tmp EXCEPT ![i].loaded = metrics.requests_total]
    /\ pc' = [pc EXCEPT ![i] = Flow("l100_load", "ok")]
    /\ running' = i
    /\ UNCHANGED <<metrics, content_type, exc, response, stages, outcome, incs, answered, peak>>
    /\ UNCHANGED <<metricsVars, rankVars, healthVars>>

\* line 100, the write of metrics["requests_total"] += 1
StoreRequestsTotal(i) ==
    /\ pc[i] = "l100_store"
    /\ CanStep(i)
    /\ metrics' = [metrics EXCEPT !.requests_total = tmp[i].loaded + RequestIncrement]
    /\ incs' = [incs EXCEPT ![i].requests =
                    @ + metrics'.requests_total - metrics.requests_total]
    /\ tmp' = [tmp EXCEPT ![i].loaded = 0]
    /\ stages' = Stage(i, "record_request")
    /\ pc' = [pc EXCEPT ![i] = Flow("l100_store", "ok")]
    /\ running' = i
    /\ UNCHANGED <<content_type, exc, response, outcome, answered, peak>>
    /\ UNCHANGED <<metricsVars, rankVars, healthVars>>

\* lines 103-110, for the content type the upload turns out to declare
Validate(i) ==
    /\ pc[i] = "validate"
    /\ CanStep(i)
    /\ stages' = Stage(i, "validate")
    /\ \E ct \in ContentTypes :
          /\ content_type' = [content_type EXCEPT ![i] = ct]
          /\ IF InvalidFileType(ct)
             THEN /\ exc' = [exc EXCEPT ![i] =
                                HTTPException(HTTP_BAD_REQUEST, "Invalid file type")]
                  /\ outcome' = [outcome EXCEPT ![i].validate = "invalid"]
                  /\ pc' = [pc EXCEPT ![i] = Flow("validate", "raise")]
             ELSE /\ exc' = exc
                  /\ outcome' = [outcome EXCEPT ![i].validate = "ok"]
                  /\ pc' = [pc EXCEPT ![i] = Flow("validate", "ok")]
    /\ running' = i
    /\ UNCHANGED <<metrics, tmp, response, incs, answered, peak>>
    /\ UNCHANGED <<metricsVars, rankVars, healthVars>>

\* line 113: await file.read() gives the event loop back
ReadFile(i) ==
    /\ pc[i] = "read"
    /\ CanStep(i)
    /\ pc' = [pc EXCEPT ![i] = Flow("read", "ok")]
    /\ running' = 0
    /\ UNCHANGED <<metrics, content_type, tmp, exc, response, stages, outcome, incs, answered, peak>>
    /\ UNCHANGED <<metricsVars, rankVars, healthVars>>

\* lines 114-138: decode, RGB, resize, scale, batch, payload
Normalize(i) ==
    /\ pc[i] = "normalize"
    /\ CanStep(i)
    /\ stages' = Stage(i, "normalize")
    /\ \E o \in NormalizeOutcomes :
          /\ outcome' = [outcome EXCEPT ![i].normalize = o]
          /\ IF o = "ok"
             THEN /\ exc' = exc
                  /\ pc' = [pc EXCEPT ![i] = Flow("normalize", "ok")]
             ELSE /\ exc' = [exc EXCEPT ![i] = Raised(o)]
                  /\ pc' = [pc EXCEPT ![i] = Flow("normalize", "raise")]
    /\ running' = i
    /\ UNCHANGED <<metrics, content_type, tmp, response, incs, answered, peak>>
    /\ UNCHANGED <<metricsVars, rankVars, healthVars>>

\* lines 140-163: requests.post (blocking, it never yields the event loop),
\* the status check, response.json() and predictions_response['predictions'][0]
CallBackend(i) ==
    /\ pc[i] = "backend"
    /\ CanStep(i)
    /\ stages' = Stage(i, "backend")
    /\ \E o \in BackendOutcomes :
          /\ outcome' = [outcome EXCEPT ![i].backend = o]
          /\ IF o = "ok"
             THEN /\ \E v \in SampleVectors :
                        tmp' = [tmp EXCEPT ![i].pred_array = v]
                  /\ exc' = exc
                  /\ pc' = [pc EXCEPT ![i] = Flow("backend", "ok")]
             ELSE /\ tmp' = tmp
                  /\ exc' = [exc EXCEPT ![i] =
                                IF o = "non_200"
                                THEN HTTPException(HTTP_SERVER_ERROR, "TF Serving error")
                                ELSE Raised(o)]
                  /\ pc' = [pc EXCEPT ![i] = Flow("backend", "raise")]
    /\ running' = i
    /\ UNCHANGED <<metrics, content_type, response, incs, answered, peak>>
    /\ UNCHANGED <<metricsVars, rankVars, healthVars>>

\* lines 164-172
Rank(i) ==
    /\ pc[i] = "rank"
    /\ CanStep(i)
    /\ stages' = Stage(i, "rank")
    /\ \E r \in PredictionLists(tmp[i].pred_array) :
          tmp' = [tmp EXCEPT ![i].results = r]
    /\ pc' = [pc EXCEPT ![i] = Flow("rank", "ok")]
    /\ running' = i
    /\ UNCHANGED <<metrics, content_type, exc, response, outcome, incs, answered, peak>>
    /\ UNCHANGED <<metricsVars, rankVars, healthVars>>

\* lines 174-185
Respond(i) ==
    /\ pc[i] = "respond"
    /\ CanStep(i)
    /\ stages' = Stage(i, "respond")
    /\ response' = [response EXCEPT ![i] =
                       [status_code |-> HTTP_OK, detail |-> "None",
                        predictions |-> tmp[i].results]]
    /\ pc' = [pc EXCEPT ![i] = Flow("respond", "ok")]
    /\ running' = i
    /\ UNCHANGED <<metrics, content_type, tmp, exc, outcome, incs, answered, peak>>
    /\ UNCHANGED <<metricsVars, rankVars, healthVars>>

\* lines 187 / 190: the exception reaches the except clauses; in a clause,
\* the read of metrics["errors_total"] += 1.  An exception no clause catches
\* leaves the handler and the server answers 500 without a detail.
ExceptLoad(i) ==
    /\ pc[i] = "except"
    /\ CanStep(i)
    /\ IF ExceptClause(exc[i].type) = "unhandled"
       THEN /\ response' = [response EXCEPT ![i] =
                              [status_code |-> HTTP_SERVER_ERROR,
                               detail |-> "None", predictions |-> <<>>]]
            /\ stages' = Stage(i, "unhandled")
            /\ pc' = [pc EXCEPT ![i] = "returned"]
            /\ tmp' = tmp
       ELSE /\ tmp' = [tmp EXCEPT ![i].loaded = metrics.errors_total]
            /\ pc' = [pc EXCEPT ![i] = Flow("except", "ok")]
            /\ UNCHANGED <<response, stages>>
    /\ running' = i
    /\ UNCHANGED <<metrics, content_type, exc, outcome, incs, answered, peak>>
    /\ UNCHANGED <<metricsVars, rankVars, healthVars>>

\* lines 188-189 / 191-193: the write of metrics["errors_total"] += 1, then
\* the HTTPException that becomes the response
ExceptStoreRaise(i) ==
    /\ pc[i] = "except_store"
    /\ CanStep(i)
    /\ LET clause == ExceptClause(exc[i].type) IN
          /\ metrics' = [metrics EXCEPT !.errors_total =
                            tmp[i].loaded + ErrorIncrement(clause)]
          /\ response' = [response EXCEPT ![i] =
                IF clause = "l187"
                THEN [status_code |-> exc[i].status_code,
                      detail |-> exc[i].detail, predictions |-> <<>>]
                ELSE [status_code |-> HTTP_SERVER_ERROR,
                      detail |-> exc[i].detail, predictions |-> <<>>]]
    /\ incs' = [incs EXCEPT ![i].errors =
                    @ + metrics'.errors_total - metrics.errors_total]
    /\ stages' = Stage(i, "error")
    /\ pc' = [pc EXCEPT ![i] = Flow("except_store", "ok")]
    /\ running' = i
    /\ UNCHANGED <<content_type, tmp, exc, outcome, answered, peak>>
    /\ UNCHANGED <<metricsVars, rankVars, healthVars>>

\* the framework sends what the handler returned or raised; the request, its
\* upload and the handler's locals are gone
Send(i) ==
    /\ pc[i] = "returned"
    /\ CanStep(i)
    /\ answered' = IF response[i].status_code = HTTP_OK
                   THEN [answered EXCEPT !.ok = @ + 1]
                   ELSE [answered EXCEPT !.error = @ + 1]
    /\ content_type' = [content_type EXCEPT ![i] = None]
    /\ tmp' = [tmp EXCEPT ![i] = NoLocals]
    /\ exc' = [exc EXCEPT ![i] = NoException]
    /\ outcome' = [outcome EXCEPT ![i] = NoOutcome]
    /\ response' = [response EXCEPT ![i] = NoResponse]
    /\ stages' = [stages EXCEPT ![i] = <<>>]
    /\ incs' = [incs EXCEPT ![i] = NoIncs]
    /\ pc' = [pc EXCEPT ![i] = Flow("returned", "ok")]
    /\ running' = 0
    /\ UNCHANGED <<metrics, peak>>
    /\ UNCHANGED <<metricsVars, rankVars, healthVars>>

predict(i) ==
    \/ Receive(i)
    \/ LoadRequestsTotal(i)
    \/ StoreRequestsTotal(i)
    \/ Validate(i)
    \/ ReadFile(i)
    \/ Normalize(i)
    \/ CallBackend(i)
    \/ Rank(i)
    \/ Respond(i)
    \/ ExceptLoad(i)
    \/ ExceptStoreRaise(i)
    \/ Send(i)

\* ------------------------------------------------------------ GET /metrics
\* get_metrics is a plain "def": the framework runs it on a worker thread, so
\* its reads of the dict interleave with the steps of the event-loop thread.
NoReads  == [r207 |-> 0, e208 |-> 0, r210 |-> 0, e210 |-> 0]
NoReport == [requests_total |-> -1, errors_total |-> -1, success_rate |-> -1,
             raised |-> "none"]

\* mutant: the division by requests_total itself
DenominatorUnguarded(requests_total) == requests_total

\* line 210: max(metrics["requests_total"], 1)
Denominator(requests_total) == max(requests_total, 1)

\* lines 209-212: round((requests - errors) / denominator * 100, 2), in 1/100 %
success_rate(requests, errors, denominator) ==
    round((requests - errors) * 100 * 100, denominator)

InitMetrics ==
    /\ mpc = "idle"
    /\ mlocal = NoReads
    /\ report = NoReport

\* line 207: "requests_total": metrics["requests_total"]
ReadRequestsTotal ==
    /\ mpc = "idle"
    /\ mlocal' = [NoReads EXCEPT !.r207 = metrics.requests_total]
    /\ mpc' = "l208"
    /\ report' = NoReport
    /\ UNCHANGED <<predictVars, rankVars, healthVars>>

\* line 208: "errors_total": metrics["errors_total"]
ReadErrorsTotal ==
    /\ mpc = "l208"
    /\ mlocal' = [mlocal EXCEPT !.e208 = metrics.errors_total]
    /\ mpc' = "l210_requests"
    /\ UNCHANGED report
    /\ UNCHANGED <<predictVars, rankVars, healthVars>>

\* line 210: the first operand of the subtraction
ReadRateRequests ==
    /\ mpc = "l210_requests"
    /\ mlocal' = [mlocal EXCEPT !.r210 = metrics.requests_total]
    /\ mpc' = "l210_errors"
    /\ UNCHANGED report
    /\ UNCHANGED <<predictVars, rankVars, healthVars>>

\* line 210: the second operand of the subtraction
ReadRateErrors ==
    /\ mpc = "l210_errors"
    /\ mlocal' = [mlocal EXCEPT !.e210 = metrics.errors_total]
    /\ mpc' = "l210_max"
    /\ UNCHANGED report
    /\ UNCHANGED <<predictVars, rankVars, healthVars>>

\* line 210: the argument of max, then lines 203-215: the body returned
ReturnMetrics ==
    /\ mpc = "l210_max"
    /\ LET d == Denominator(metrics.requests_total) IN
          /\ mlocal' = NoReads
          /\ report' =
                IF d = 0
                THEN [NoReport EXCEPT !.raised = "ZeroDivisionError"]
                ELSE [requests_total |-> mlocal.r207,
                      errors_total   |-> mlocal.e208,
                      success_rate   |-> success_rate(mlocal.r210, mlocal.e210, d),
                      raised         |-> "none"]
    /\ mpc' = "idle"
    /\ UNCHANGED <<predictVars, rankVars, healthVars>>

get_metrics ==
    \/ ReadRequestsTotal
    \/ ReadErrorsTotal
    \/ ReadRateRequests
    \/ ReadRateErrors
    \/ ReturnMetrics

\* ------------------------------------------------------------- GET /health
\* what the backend does to the probe of line 51
ProbeOutcomes == {"ok", "Timeout", "ConnectionError", "non_200", "JSONDecodeError"}

NoVerdict == [status_code |-> 0, status |-> "None", tf_serving |-> "None",
              error |-> "None", raised |-> "none"]

\* lines 50-64: what the try block ends with for a probe outcome: "return",
\* or the type of the exception raised (requests.get raises on a timeout and
\* on a refused connection, line 64 raises Exception for a status other than
\* 200, response.json() raises on a body that is not JSON)
HealthTry(probe) ==
    IF probe = "ok" THEN "return"
    ELSE IF probe = "non_200" THEN "Exception"
    ELSE probe

\* mutant: "except requests.RequestException"
HealthCatchesRequestsOnly(type) == type \in {"Timeout", "ConnectionError"}

\* line 65: except Exception
HealthCatches(type) == type \in ExceptionSubclasses

\* lines 50-75
HealthResponse(probe) ==
    LET end == HealthTry(probe) IN
    IF end = "return"
    THEN [status_code |-> HTTP_OK, status |-> "healthy",
          tf_serving |-> "connected", error |-> "None", raised |-> "none"]
    ELSE IF HealthCatches(end)
    THEN [status_code |-> HTTP_UNAVAILABLE, status |-> "unhealthy",
          tf_serving |-> "disconnected", error |-> end, raised |-> "none"]
    ELSE [NoVerdict EXCEPT !.status_code = HTTP_SERVER_ERROR, !.raised = end]

InitHealthIdle ==
    /\ tf_serving = "ok"
    /\ verdict = NoVerdict
    /\ previous = NoVerdict
    /\ calls = 0

InitHealth ==
    /\ tf_serving \in ProbeOutcomes
    /\ verdict = NoVerdict
    /\ previous = NoVerdict
    /\ calls = 0

\* GET /health, lines 47-75
health ==
    /\ calls < MaxHealthCalls
    /\ verdict' = HealthResponse(tf_serving)
    /\ previous' = verdict
    /\ calls' = calls + 1
    /\ UNCHANGED tf_serving
    /\ UNCHANGED <<predictVars, metricsVars, rankVars>>

\* the backend goes down, comes back, or starts answering differently
BackendChanges ==
    /\ \E p \in ProbeOutcomes \ {tf_serving} : tf_serving' = p
    /\ UNCHANGED <<verdict, previous, calls>>
    /\ UNCHANGED <<predictVars, metricsVars, rankVars>>

\* ------------------------------------------------ the top-5 selection alone
InitRankIdle == pred_array = <<>> /\ results = <<>>

Scores == 0 .. MaxScore

\* the prediction vectors of TopK to MaxLen scores
Vectors == UNION { [1 .. n -> Scores] : n \in TopK .. MaxLen }

InitRank ==
    /\ pred_array \in Vectors
    /\ results = <<>>

\* lines 163-172 on the vector the backend returned
ProcessPredictions ==
    /\ results = <<>>
    /\ results' \in PredictionLists(pred_array)
    /\ UNCHANGED pred_array
    /\ UNCHANGED <<predictVars, metricsVars, healthVars>>

\* -------------------------------------------------------------------- Spec
Init == InitPredict /\ InitMetrics /\ InitRankIdle /\ InitHealthIdle

Next ==
    \/ \E i \in Requests : predict(i)
    \/ get_metrics

Spec == Init /\ [][Next]_vars

\* ---------------------------------------------------------------- SpecRank
RankInit == InitPredict /\ InitMetrics /\ InitRank /\ InitHealthIdle

RankNext == ProcessPredictions

SpecRank == RankInit /\ [][RankNext]_vars

\* -------------------------------------------------------------- SpecHealth
HealthInit == InitPredict /\ InitMetrics /\ InitRankIdle /\ InitHealth

HealthNext ==
    \/ health
    \/ BackendChanges

SpecHealth == HealthInit /\ [][HealthNext]_vars

\* ------------------------------------------------------------------ claims
AllDone == \A i \in Requests : pc[i] = "done"
Returned(i) == pc[i] = "returned"
Ran(i, name) == \E k \in 1 .. Len(stages[i]) : stages[i][k] = name
LastStage(i) == stages[i][Len(stages[i])]
IsPrefix(s, t) == Len(s) <= Len(t) /\ \A k \in 1 .. Len(s) : s[k] = t[k]

\* the upload declares no content type, or one that does not begin "image/"
NotAnImage(ct) ==
    \/ ct.none
    \/ Len(ct.text) < 6
    \/ <<ct.text[1], ct.text[2], ct.text[3], ct.text[4], ct.text[5], ct.text[6]>>
          # <<"i", "m", "a", "g", "e", "/">>

DecodeFailed(i)  == outcome[i].normalize \in {"UnidentifiedImageError", "MemoryError"}
BackendFailed(i) ==
    outcome[i].backend \in {"Timeout", "ConnectionError", "non_200",
                            "JSONDecodeError", "KeyError", "IndexError"}
ErrorOutcome(i) ==
    \/ Ran(i, "validate") /\ NotAnImage(content_type[i])
    \/ DecodeFailed(i)
    \/ BackendFailed(i)

\* C1: a request that ends in an error outcome (validation, decode, backend,
\* internal fault) has added exactly 1 to errors_total when its handler ends,
\* a request that ends in success has added nothing, and nothing is added
\* before the outcome: errors_total is the number of error outcomes so far.
C1_ErrorsCountedOnce ==
    /\ \A i \in Requests :
          /\ Returned(i) =>
                /\ ErrorOutcome(i) <=> response[i].status_code # HTTP_OK
                /\ incs[i].errors = IF ErrorOutcome(i) THEN 1 ELSE 0
          /\ ~Returned(i) => incs[i].errors = 0
    /\ metrics.errors_total = answered.error +
          Cardinality({i \in Requests :
                          Returned(i) /\ response[i].status_code # HTTP_OK})

C1_Witness ==
    /\ answered.ok >= 1
    /\ answered.error >= 1
    /\ \E i \in Requests :
          /\ Returned(i)
          /\ outcome[i].normalize = "MemoryError"
          /\ response[i].status_code = HTTP_SERVER_ERROR
          /\ metrics.errors_total = 2

\* C2: the stages of a request run in the order record, validate, normalize,
\* backend, rank, respond; the first failure is followed by the error response
\* only: no normalize or backend call after a rejected content type, no
\* backend call after a failed decode, no rank or respond after a failed
\* backend call.
FullOrder == <<"record_request", "validate", "normalize", "backend", "rank", "respond">>

C2_StagesInOrder ==
    \A i \in Requests :
       LET st      == stages[i]
           errored == st # <<>> /\ LastStage(i) = "error"
           body    == IF errored THEN SubSeq(st, 1, Len(st) - 1) ELSE st
       IN  /\ IsPrefix(body, FullOrder)
           /\ errored =>
                 /\ body # <<>>
                 /\ body[Len(body)] \in {"validate", "normalize", "backend"}
                 /\ Returned(i)
                 /\ response[i].status_code # HTTP_OK
           /\ (Ran(i, "validate") /\ NotAnImage(content_type[i])) =>
                 \A n \in {"normalize", "backend", "rank", "respond"} : ~Ran(i, n)
           /\ DecodeFailed(i) =>
                 \A n \in {"backend", "rank", "respond"} : ~Ran(i, n)
           /\ BackendFailed(i) =>
                 \A n \in {"rank", "respond"} : ~Ran(i, n)
           /\ (Returned(i) /\ response[i].status_code = HTTP_OK) => st = FullOrder

C2_Witness ==
    /\ answered.ok >= 1
    /\ \E i, j \in Requests :
          /\ Returned(i)
          /\ stages[i] = <<"record_request", "validate", "normalize", "backend", "error">>
          /\ pc[j] = "done"

\* C3: once N requests handled concurrently have all finished, E of them in
\* error, requests_total is N and errors_total is E; on the way there neither
\* counter is behind the responses already sent.
C3_NoLostIncrement ==
    /\ metrics.requests_total >= answered.ok + answered.error
    /\ metrics.errors_total >= answered.error
    /\ AllDone =>
          /\ metrics.requests_total = NumRequests
          /\ metrics.errors_total = answered.error
          /\ answered.ok + answered.error = NumRequests

C3_Witness ==
    /\ AllDone
    /\ peak = NumRequests
    /\ answered.error >= 1
    /\ answered.ok >= 1
    /\ metrics.requests_total = NumRequests

\* C5: an upload with a missing content type or one that does not start with
\* "image/" is answered 400 with a detail, having added exactly 1 to
\* errors_total and 1 to requests_total.
C5_NonImageRejected ==
    \A i \in Requests :
       (Returned(i) /\ NotAnImage(content_type[i])) =>
          /\ response[i].status_code = HTTP_BAD_REQUEST
          /\ response[i].detail # "None"
          /\ incs[i] = [requests |-> 1, errors |-> 1]

C5_Witness ==
    \E i, j \in Requests :
       /\ Returned(i)
       /\ content_type[i] = text_plain
       /\ response[i].status_code = HTTP_BAD_REQUEST
       /\ incs[i] = [requests |-> 1, errors |-> 1]
       /\ pc[j] = "done"

\* C6: every backend failure (status other than 200, timeout, refused
\* connection, malformed body, missing or empty predictions) ends in a 500
\* response with a detail, raised by the handler itself: never a success,
\* never an exception that leaves the handler uncaught.
C6_BackendFailureIs500 ==
    \A i \in Requests :
       /\ BackendFailed(i) => response[i].status_code # HTTP_OK
       /\ (Returned(i) /\ BackendFailed(i)) =>
             /\ response[i].status_code = HTTP_SERVER_ERROR
             /\ response[i].detail # "None"
             /\ response[i].predictions = <<>>
             /\ LastStage(i) = "error"

C6_Witness ==
    \E i \in Requests :
       /\ Returned(i)
       /\ outcome[i].backend = "IndexError"
       /\ response[i].status_code = HTTP_SERVER_ERROR
       /\ response[i].detail = "str(e)"

\* C8: requests_total is incremented by exactly 1 at entry, before validation
\* or any other stage: at every moment it is the number of requests that have
\* passed line 100, whatever became of them.
C8_CountsAttempts ==
    /\ metrics.requests_total =
          Cardinality({i \in Requests : pc[i] \notin {"idle", "l100_load", "l100_store"}})
    /\ \A i \in Requests :
          /\ stages[i] # <<>> => stages[i][1] = "record_request"
          /\ stages[i] # <<>> => incs[i].requests = 1
          /\ stages[i] = <<>> => incs[i].requests = 0
    /\ AllDone => metrics.requests_total = NumRequests

C8_Witness ==
    /\ AllDone
    /\ answered.ok = 0
    /\ metrics.requests_total = NumRequests

\* C9 as stated: the reported success_rate is exactly
\* (requests_total - errors_total) / max(requests_total, 1) * 100 of the
\* requests_total and errors_total reported with it, and no call fails.
ReportMade == report.requests_total >= 0 \/ report.raised # "none"

WithinHalfUnit(rate, requests, errors, denominator) ==
    2 * Abs(rate * denominator - (requests - errors) * 100 * 100) <= denominator

C10_RateBetween0And100 ==
    /\ 0 <= metrics.errors_total
    /\ metrics.errors_total <= metrics.requests_total
    /\ ReportMade =>
          /\ report.raised = "none"
          /\ 0 <= report.success_rate
          /\ report.success_rate <= 100 * 100

\* C4: for a vector of at least 5 scores the predictions list has exactly 5
\* entries in non-increasing score order, equal scores in ascending class_id
\* order, and among equal scores competing for the top 5 the lower class_id
\* is the one selected.
C4_TopFiveTiesAscending ==
    results # <<>> =>
       /\ Len(results) = TopK
       /\ \A k \in 1 .. Len(results) - 1 :
             \/ results[k].probability > results[k + 1].probability
             \/ /\ results[k].probability = results[k + 1].probability
                /\ results[k].class_id < results[k + 1].class_id
       /\ \A c \in 0 .. Len(pred_array) - 1 :
             (\A k \in 1 .. Len(results) : results[k].class_id # c) =>
                \A k \in 1 .. Len(results) :
                   \/ Score(pred_array, c) < results[k].probability
                   \/ /\ Score(pred_array, c) = results[k].probability
                      /\ c > results[k].class_id

\* C7: GET /health never raises and answers from the probe of that very call:
\* 200 healthy / connected when the probe gets a 200 with a JSON body, 503
\* unhealthy / disconnected with the reason in `error' for every other probe
\* outcome, whatever the earlier verdicts were.
C7_HealthVerdictFromFreshProbe ==
    [][ (calls' # calls) =>
          /\ verdict'.raised = "none"
          /\ (tf_serving = "ok") =>
                /\ verdict'.status_code = HTTP_OK
                /\ verdict'.status = "healthy"
                /\ verdict'.tf_serving = "connected"
          /\ (tf_serving # "ok") =>
                /\ verdict'.status_code = HTTP_UNAVAILABLE
                /\ verdict'.status = "unhealthy"
                /\ verdict'.tf_serving = "disconnected"
                /\ verdict'.error # "None"
      ]_vars

C7_Witness ==
    /\ previous.status_code = HTTP_OK
    /\ previous.tf_serving = "connected"
    /\ verdict.status_code = HTTP_UNAVAILABLE
    /\ verdict.tf_serving = "disconnected"
    /\ verdict.error = "JSONDecodeError"

====
